---- MODULE Spec2Model ----
(***************************************************************************)
(* Model of the MQTT FUOTA component (class MQTTFirmwareUpdate):            *)
(* src/src/mqtt_fuota_duino.cpp, mqtt_fuota_duino.h, mqtt_fuota_duino_def.h *)
(*                                                                         *)
(* The object's attributes are the variables.  The two entry points,       *)
(* process() and mqtt_msg_rx(), are atomic actions (the host calls them    *)
(* from one loop).  Each private method is an operator from an object      *)
(* state (a record of the attributes) to the object state it leaves, so    *)
(* that process() is the composition the code executes.  What the          *)
(* collaborators answer (PubSubClient, Update, millis) is an input of the  *)
(* action.                                                                 *)
(***************************************************************************)
EXTENDS Integers, Sequences, FiniteSets, TLC

(***************************************************************************)
(* uint32_t.  A value v is kept as the pair <<v \div 2^16, v % 2^16>> so    *)
(* that the whole 32-bit range, and the wrap-around of + and -, is          *)
(* represented exactly.                                                     *)
(***************************************************************************)
Half == 2^16

u32(n) == <<n \div Half, n % Half>>

u32_hl(hi, lo) == <<hi, lo>>

u32_add(a, b) ==
    LET lo == a[2] + b[2]
        hi == a[1] + b[1] + (lo \div Half)
    IN  <<hi % Half, lo % Half>>

u32_sub(a, b) ==
    LET lo == a[2] - b[2]
        hi == a[1] - b[1] - (IF lo < 0 THEN 1 ELSE 0)
    IN  <<hi % Half, lo % Half>>

u32_lt(a, b) == a[1] < b[1] \/ (a[1] = b[1] /\ a[2] < b[2])

u32_le(a, b) == a = b \/ u32_lt(a, b)

U32_ZERO == u32(0)

U32_MAX == u32_hl(Half - 1, Half - 1)

(***************************************************************************)
(* Protocol definitions (mqtt_fuota_duino_def.h) and private constants     *)
(* (mqtt_fuota_duino.h).                                                   *)
(***************************************************************************)
MSG_SETUP_CMD_TRIGGER_FW_UPDATE_CHECK == 0
MSG_SETUP_CMD_TRIGGER_FW_UPDATE_CHECK_LENGTH == 1
MSG_SETUP_CMD_LAST_FW_INFO == 1
MSG_SETUP_CMD_LAST_FW_INFO_LENGTH == 24
MSG_SETUP_CMD_FUOTA_START == 2
MSG_SETUP_CMD_FUOTA_START_LENGTH == 1
MD5_LENGTH == 32
T_SUBSCRIBE == 5000
MAX_APP_SIZE == 4194304

\* t_msg_fw_info_field: 0-based indexes into the setup payload
FW_INFO_CMD == 0
FW_INFO_VER_MAJOR == 1
FW_INFO_VER_MINOR == 2
FW_INFO_VER_PATCH == 3
FW_INFO_SIZE == 4
FW_INFO_MD5 == 8

\* 4-byte frames, device to server
MSG_CONTROL_CMD_FW_UPDATE_CHECK == <<175, 18, 52, 86>>
MSG_CONTROL_CMD_REQUEST_FW_UPDATE == <<85, 85, 255, 255>>
MSG_ACK_FUOTA_START == <<170, 170, 170, 170>>
MSG_CONTROL_CMD_FW_UPDATE_COMPLETED_OK == <<85, 170, 255, 255>>
MSG_CONTROL_CMD_FW_UPDATE_COMPLETED_FAIL == <<85, 170, 0, 0>>

\* topic strings, "/%s/ota/..." with the device id left out
MQTT_TOPIC_SUB_OTA_SETUP == "/ota/setup"
MQTT_TOPIC_SUB_OTA_DATA == "/ota/data"
MQTT_TOPIC_PUB_OTA_CONTROL == "/ota/control"
MQTT_TOPIC_PUB_OTA_ACK == "/ota/ack"

\* the NUL character; a char is a one-character string
NUL == ""

(***************************************************************************)
(* Bounds of the model and the inputs drawn from them.                     *)
(***************************************************************************)
\* the small offered sizes are 1..MaxSize
MaxSize == 2
\* the small data-block lengths are 0..MaxLen
MaxLen == 2
\* data blocks are written while fewer than MaxWritten bytes are
MaxWritten == MaxLen + 1

Versions == {<<0, 0, 0>>, <<1, 0, 0>>, <<1, 2, 0>>}

DeviceVersions == {<<1, 0, 0>>, <<1, 2, 0>>}

\* versions the server may offer, and the md5 digest bytes it may send
OfferVersions == Versions

Md5Inputs == {[i \in 1..16 |-> IF i = 1 THEN 10 ELSE 171]}

\* what millis() reads when the object is constructed
ClockValues == {u32(0)}

VARIABLES
    is_initialized,                 \* bool is_initialized
    t0_subscribe,                   \* unsigned long t0_subscribe
    subcribed_to_topic_ota_setup,   \* bool
    subcribed_to_topic_ota_data,    \* bool
    topic_sub_ota_setup,            \* char[MAX_TOPIC_LENGTH]
    topic_sub_ota_data,
    topic_pub_ota_control,
    topic_pub_ota_ack,
    server_request,                 \* t_server_request
    valid_update,                   \* bool
    fuota_on_progress,              \* bool
    fw_update_completed,            \* bool
    fw_bytes_written,               \* uint32_t
    fw_device,                      \* t_fw_info
    fw_server,                      \* t_fw_info
    connected,                      \* what MQTTClient->connected() answers
    Update_error,                   \* what Update.hasError() answers
    Update_size,                    \* the size of the image the writer has begun
    Update_progress,                \* the bytes of it the writer has written
    halted,                         \* "no", or how the firmware stopped running
    calls,                          \* what the last call asked of its collaborators, in order
    clock,                          \* what millis() reads
    server,                         \* where the server is in the run it drives, if it drives one
    outbox,                         \* the frames published during that run, in order
    subscriptions                   \* the topics the transport holds a subscription to

vars == <<is_initialized, t0_subscribe, subcribed_to_topic_ota_setup,
          subcribed_to_topic_ota_data, topic_sub_ota_setup, topic_sub_ota_data,
          topic_pub_ota_control, topic_pub_ota_ack, server_request, valid_update,
          fuota_on_progress, fw_update_completed, fw_bytes_written, fw_device,
          fw_server, connected, Update_error, Update_size, Update_progress,
          halted, calls, clock, server, outbox, subscriptions>>

\* the surroundings of the object that no method of it writes
surroundings == <<clock, server, outbox, subscriptions>>

\* the object (and its collaborators' state) as one record
Self ==
    [is_initialized |-> is_initialized,
     t0_subscribe |-> t0_subscribe,
     subcribed_to_topic_ota_setup |-> subcribed_to_topic_ota_setup,
     subcribed_to_topic_ota_data |-> subcribed_to_topic_ota_data,
     topic_sub_ota_setup |-> topic_sub_ota_setup,
     topic_sub_ota_data |-> topic_sub_ota_data,
     topic_pub_ota_control |-> topic_pub_ota_control,
     topic_pub_ota_ack |-> topic_pub_ota_ack,
     server_request |-> server_request,
     valid_update |-> valid_update,
     fuota_on_progress |-> fuota_on_progress,
     fw_update_completed |-> fw_update_completed,
     fw_bytes_written |-> fw_bytes_written,
     fw_device |-> fw_device,
     fw_server |-> fw_server,
     connected |-> connected,
     Update_error |-> Update_error,
     Update_size |-> Update_size,
     Update_progress |-> Update_progress,
     halted |-> halted,
     calls |-> calls]

\* the object after a call: s with the call's log started afresh
Enter(s) == [s EXCEPT !.calls = <<>>]

\* the next state is the object state s0
Becomes(s0) ==
  \E s \in {s0} :
    /\ is_initialized' = s.is_initialized
    /\ t0_subscribe' = s.t0_subscribe
    /\ subcribed_to_topic_ota_setup' = s.subcribed_to_topic_ota_setup
    /\ subcribed_to_topic_ota_data' = s.subcribed_to_topic_ota_data
    /\ topic_sub_ota_setup' = s.topic_sub_ota_setup
    /\ topic_sub_ota_data' = s.topic_sub_ota_data
    /\ topic_pub_ota_control' = s.topic_pub_ota_control
    /\ topic_pub_ota_ack' = s.topic_pub_ota_ack
    /\ server_request' = s.server_request
    /\ valid_update' = s.valid_update
    /\ fuota_on_progress' = s.fuota_on_progress
    /\ fw_update_completed' = s.fw_update_completed
    /\ fw_bytes_written' = s.fw_bytes_written
    /\ fw_device' = s.fw_device
    /\ fw_server' = s.fw_server
    /\ connected' = s.connected
    /\ Update_error' = s.Update_error
    /\ Update_size' = s.Update_size
    /\ Update_progress' = s.Update_progress
    /\ halted' = s.halted
    /\ calls' = s.calls

(***************************************************************************)
(* t_fw_info and the auxiliary methods.                                    *)
(***************************************************************************)
\* memset(md5, '\0', MD5_LENGTH)
NULS == [i \in 1..MD5_LENGTH |-> NUL]

\* void t_fw_info_clear(t_fw_info*)
t_fw_info_clear ==
    [version |-> <<0, 0, 0>>, size |-> U32_ZERO, md5 |-> NULS]

\* u32_version_from_array shifting the major byte by 8 bits only
u32_version_from_array_short_shift(ver_x, ver_y, ver_z) ==
    (ver_x * 2^8) + (ver_y * 2^8) + ver_z

\* uint32_t u32_version_from_array(ver_x, ver_y, ver_z): below 2^24, no wrap
u32_version_from_array(ver_x, ver_y, ver_z) ==
    (ver_x * 2^16) + (ver_y * 2^8) + ver_z

\* void big_endian_u32_write_to_array(u32_value, array): the four bytes
big_endian_u32_write_to_array(u32_value) ==
    <<u32_value[1] \div 256, u32_value[1] % 256,
      u32_value[2] \div 256, u32_value[2] % 256>>

\* big_endian_u32_read_from_array taking array[0] for the least significant byte
big_endian_u32_read_from_array_little_endian(array) ==
    u32_hl((array[4] * 256) + array[3], (array[2] * 256) + array[1])

\* uint32_t big_endian_u32_read_from_array(array)
big_endian_u32_read_from_array(array) ==
    u32_hl((array[1] * 256) + array[2], (array[3] * 256) + array[4])

\* sprintf(ptr, "%02X", byte): two upper-case hexadecimal characters
HexChars == <<"0", "1", "2", "3", "4", "5", "6", "7",
              "8", "9", "A", "B", "C", "D", "E", "F">>

sprintf_02X(byte) == <<HexChars[(byte \div 16) + 1], HexChars[(byte % 16) + 1]>>

\* payload[i] of the C array kept as the sequence payload
At(payload, i) == payload[i + 1]

\* Serial.printf / Serial.println of a fixed message
Serial(s, msg) == [s EXCEPT !.calls = Append(@, <<"Serial", msg>>)]

\* bool is_connected()
is_connected(s) == IF s.is_initialized = FALSE THEN FALSE ELSE s.connected

\* MQTTClient->publish(topic, payload, CMD_LEN)
MQTTClient_publish(s, topic, payload) ==
    [s EXCEPT !.calls = Append(@, <<"publish", topic, payload>>)]

\* bool publish_control_command(command); no caller reads what it returns
publish_control_command(s, command) ==
    IF s.is_initialized = FALSE THEN s
    ELSE IF is_connected(s) = FALSE THEN s
    ELSE MQTTClient_publish(s, s.topic_pub_ota_control, command)

(***************************************************************************)
(* The storage writer, Update (Arduino's Update.h).  Whether begin, write  *)
(* and end succeed is an input.  As in that library: begin(size) fails for *)
(* size 0 and otherwise opens room for size bytes; a write of more than    *)
(* the room left fails; abort() closes the image and leaves the writer in  *)
(* error until the next begin(); a writer in error writes nothing; a       *)
(* failed begin/write/end leaves it in error.                              *)
(***************************************************************************)
Invoke(s, call) == [s EXCEPT !.calls = Append(@, call)]

\* void Update.abort()
Update_abort(s) ==
    [Invoke(s, <<"Update.abort">>) EXCEPT
        !.Update_error = TRUE, !.Update_size = U32_ZERO, !.Update_progress = U32_ZERO]

\* bool Update.begin(size): what it returns when the writer answers ok
Update_begins(size, ok) == ok /\ size # U32_ZERO

\* bool Update.begin(size): the writer afterwards
Update_begin(s, size, ok) ==
    [Invoke(s, <<"Update.begin", size>>) EXCEPT
        !.Update_error = ~Update_begins(size, ok),
        !.Update_size = IF Update_begins(size, ok) THEN size ELSE U32_ZERO,
        !.Update_progress = U32_ZERO]

\* bool Update.setMD5(md5)
Update_setMD5(s, md5) == Invoke(s, <<"Update.setMD5", md5>>)

\* how a write the writer has room for goes
WriteOutcomes == {"all", "short", "none"}

\* the writer refuses the write
Update_refuses(s, length) ==
    s.Update_error \/ u32_lt(u32_sub(s.Update_size, s.Update_progress), length)

\* the number of bytes Update.write(payload, length) reports written
Update_written(s, length, outcome) ==
    IF Update_refuses(s, length) THEN U32_ZERO
    ELSE IF outcome = "all" THEN length
    ELSE IF outcome = "short" /\ length # U32_ZERO THEN u32_sub(length, u32(1))
    ELSE U32_ZERO

\* size_t Update.write(payload, length): the writer afterwards
Update_write(s, length, outcome) ==
    [Invoke(s, <<"Update.write", length>>) EXCEPT
        !.Update_error = Update_refuses(s, length) \/ outcome # "all",
        !.Update_progress = u32_add(@, Update_written(s, length, outcome))]

\* bool Update.hasError()
Update_hasError(s) == s.Update_error

\* size_t Update.remaining(): draining what is pending may fail
Update_remaining(s, err) ==
    [Invoke(s, <<"Update.remaining">>) EXCEPT !.Update_error = s.Update_error \/ err]

\* bool Update.end(), answering ok
Update_end(s, ok) ==
    [Invoke(s, <<"Update.end">>) EXCEPT !.Update_error = s.Update_error \/ ~ok]

\* void ESP.restart(): the firmware stops running here
ESP_restart(s) == [Invoke(s, <<"ESP.restart">>) EXCEPT !.halted = "restart"]

(***************************************************************************)
(* Private methods: MQTT message handlers.                                 *)
(***************************************************************************)
\* the md5 string read from the 16 bytes at payload[FW_INFO_MD5]
RECURSIVE md5_chars(_, _)
md5_chars(payload, i) ==
    IF i = MD5_LENGTH \div 2 THEN <<>>
    ELSE sprintf_02X(At(payload, i + FW_INFO_MD5)) \o md5_chars(payload, i + 1)

OfferSizes == {u32(n) : n \in 0..MaxSize} \cup {u32(MAX_APP_SIZE + 1)}

\* the 24-byte "last firmware info" frame the server builds
LastFwInfoFrame(version, size, md5_bytes) ==
    <<MSG_SETUP_CMD_LAST_FW_INFO>> \o version
        \o big_endian_u32_write_to_array(size) \o md5_bytes

OfferFrames ==
    {LastFwInfoFrame(v, sz, m) : v \in OfferVersions, sz \in OfferSizes, m \in Md5Inputs}

\* frames whose bytes tell the positions apart and reach both ends of a byte
DecodeVersions == <<<<0, 0, 0>>, <<1, 2, 3>>, <<255, 128, 127>>>>

\* the four bytes of the size as the server writes them
DecodeSizeBytes ==
    <<<<0, 0, 0, 0>>, <<0, 0, 0, 2>>, <<0, 0, 1, 0>>, <<0, 1, 0, 0>>, <<1, 0, 0, 0>>,
      <<1, 2, 3, 4>>, <<0, 64, 0, 0>>, <<128, 0, 0, 0>>, <<255, 255, 255, 255>>>>

\* the sixteen bytes of the hash
DecodeMd5Bytes ==
    <<[i \in 1..16 |-> IF i % 2 = 1 THEN 10 ELSE 160],
      [i \in 1..16 |-> 17 * (i - 1)],
      [i \in 1..16 |-> 255 - (16 * (i - 1))]>>

\* one frame for each size, every version meeting every hash
DecodeFrames ==
    {<<MSG_SETUP_CMD_LAST_FW_INFO>> \o DecodeVersions[(k % 3) + 1]
        \o DecodeSizeBytes[k + 1] \o DecodeMd5Bytes[(k \div 3) + 1] : k \in 0..8}

\* md5_chars worked out once for each frame the server sends
Md5Rows == {<<p, md5_chars(p, 0)>> : p \in OfferFrames \cup DecodeFrames}

md5_from_payload(payload) ==
    IF \E row \in Md5Rows : row[1] = payload
    THEN (CHOOSE row \in Md5Rows : row[1] = payload)[2]
    ELSE md5_chars(payload, 0)

\* the '\0' sprintf writes after the two characters.  fw_server.md5 is
\* char[MD5_LENGTH] and the 32 characters fill it, so that of the 16th call is
\* stored in the byte after fw_server, the last attribute of the object: a
\* store to memory that is not the object's
md5_terminator(s) == Invoke(s, <<"store", "fw_server.md5[32]", NUL>>)

\* setup_last_fw_info taking the offered version for the device's as well
setup_last_fw_info_into_device(s, payload) ==
    [Serial(md5_terminator(s), "Server FW info received") EXCEPT
        !.fw_server = [version |-> <<At(payload, FW_INFO_VER_MAJOR),
                                     At(payload, FW_INFO_VER_MINOR),
                                     At(payload, FW_INFO_VER_PATCH)>>,
                       size |-> big_endian_u32_read_from_array(
                                    SubSeq(payload, FW_INFO_SIZE + 1, FW_INFO_SIZE + 4)),
                       md5 |-> md5_from_payload(payload)],
        !.fw_device.version = <<At(payload, FW_INFO_VER_MAJOR),
                                At(payload, FW_INFO_VER_MINOR),
                                At(payload, FW_INFO_VER_PATCH)>>,
        !.server_request = "FW_UPDATE"]

\* the "last firmware info" branch of mqtt_msg_rx_ota_setup
setup_last_fw_info(s, payload) ==
    [Serial(md5_terminator(s), "Server FW info received") EXCEPT
        !.fw_server = [version |-> <<At(payload, FW_INFO_VER_MAJOR),
                                     At(payload, FW_INFO_VER_MINOR),
                                     At(payload, FW_INFO_VER_PATCH)>>,
                       size |-> big_endian_u32_read_from_array(
                                    SubSeq(payload, FW_INFO_SIZE + 1, FW_INFO_SIZE + 4)),
                       md5 |-> md5_from_payload(payload)],
        !.server_request = "FW_UPDATE"]

\* mqtt_msg_rx_ota_setup taking a "start FUOTA" command of any length
mqtt_msg_rx_ota_setup_any_start_length(s, payload, length) ==
    IF length = U32_ZERO THEN s
    ELSE IF At(payload, FW_INFO_CMD) = MSG_SETUP_CMD_TRIGGER_FW_UPDATE_CHECK THEN
        IF length # u32(MSG_SETUP_CMD_TRIGGER_FW_UPDATE_CHECK_LENGTH) THEN s
        ELSE [Serial(s, "Server requesting device to check for FW update")
                EXCEPT !.server_request = "TRIGGER_FW_UPDATE_CHECK"]
    ELSE IF At(payload, FW_INFO_CMD) = MSG_SETUP_CMD_LAST_FW_INFO THEN
        IF length # u32(MSG_SETUP_CMD_LAST_FW_INFO_LENGTH) THEN s
        ELSE setup_last_fw_info(s, payload)
    ELSE IF At(payload, FW_INFO_CMD) = MSG_SETUP_CMD_FUOTA_START THEN
        [Serial(s, "Server requesting FUOTA Start")
            EXCEPT !.server_request = "FUOTA_START"]
    ELSE Serial(s, "Unexpected msg")

\* void mqtt_msg_rx_ota_setup(payload, length)
mqtt_msg_rx_ota_setup(s, payload, length) ==
    IF length = U32_ZERO THEN s
    ELSE IF At(payload, FW_INFO_CMD) = MSG_SETUP_CMD_TRIGGER_FW_UPDATE_CHECK THEN
        IF length # u32(MSG_SETUP_CMD_TRIGGER_FW_UPDATE_CHECK_LENGTH) THEN s
        ELSE [Serial(s, "Server requesting device to check for FW update")
                EXCEPT !.server_request = "TRIGGER_FW_UPDATE_CHECK"]
    ELSE IF At(payload, FW_INFO_CMD) = MSG_SETUP_CMD_LAST_FW_INFO THEN
        IF length # u32(MSG_SETUP_CMD_LAST_FW_INFO_LENGTH) THEN s
        ELSE setup_last_fw_info(s, payload)
    ELSE IF At(payload, FW_INFO_CMD) = MSG_SETUP_CMD_FUOTA_START THEN
        IF length # u32(MSG_SETUP_CMD_FUOTA_START_LENGTH) THEN s
        ELSE [Serial(s, "Server requesting FUOTA Start")
                EXCEPT !.server_request = "FUOTA_START"]
    ELSE Serial(s, "Unexpected msg")

\* limit_length limiting nothing
limit_length_unlimited(s, length) == length

\* "Limit bytes to write if there is coming more than expected"
limit_length(s, length) ==
    IF u32_lt(s.fw_server.size, u32_add(s.fw_bytes_written, length))
    THEN u32_sub(s.fw_server.size, s.fw_bytes_written)
    ELSE length

\* "Check if FW update has been completed"
check_completed(s) ==
    IF u32_le(s.fw_server.size, s.fw_bytes_written)
    THEN [s EXCEPT !.fw_update_completed = TRUE]
    ELSE s

\* what fw_bytes_written / fw_server.size does when fw_server.size is 0
DivZeroOutcomes == {"trap", "goes on"}

\* mqtt_msg_rx_ota_data not asking whether the transfer is in progress
mqtt_msg_rx_ota_data_any_progress(s, payload, length, outcome, div0) ==
    IF s.valid_update = FALSE THEN s
    ELSE
        LET len == limit_length(s, length)
            num_bytes_written == Update_written(s, len, outcome)
            s1 == [Update_write(s, len, outcome) EXCEPT
                      !.fw_bytes_written = u32_add(@, num_bytes_written)]
        IN  IF s1.fw_server.size = U32_ZERO /\ div0 = "trap"
            THEN [s1 EXCEPT !.halted = "crash"]
            ELSE check_completed(Serial(s1, "Updating"))

\* void mqtt_msg_rx_ota_data(payload, length); the writer answers outcome
mqtt_msg_rx_ota_data(s, payload, length, outcome, div0) ==
    IF s.valid_update = FALSE THEN s
    ELSE IF s.fuota_on_progress = FALSE THEN s
    ELSE
        LET len == limit_length(s, length)
            num_bytes_written == Update_written(s, len, outcome)
            s1 == [Update_write(s, len, outcome) EXCEPT
                      !.fw_bytes_written = u32_add(@, num_bytes_written)]
        IN  IF s1.fw_server.size = U32_ZERO /\ div0 = "trap"
            THEN [s1 EXCEPT !.halted = "crash"]
            ELSE check_completed(Serial(s1, "Updating"))

\* bool mqtt_msg_rx(topic, payload, length): the object afterwards
mqtt_msg_rx_dispatch(s, topic, payload, length, outcome, div0) ==
    IF (s.subcribed_to_topic_ota_setup = FALSE) \/ (s.subcribed_to_topic_ota_data = FALSE)
    THEN s
    ELSE IF topic = s.topic_sub_ota_setup
    THEN mqtt_msg_rx_ota_setup(Serial(s, "MSG RX: OTA Setup"), payload, length)
    ELSE IF topic = s.topic_sub_ota_data
    THEN mqtt_msg_rx_ota_data(Serial(s, "MSG RX: FW DATA"), payload, length, outcome, div0)
    ELSE s

\* bool mqtt_msg_rx(topic, payload, length): what it returns
mqtt_msg_rx_returns(s, topic) ==
    IF (s.subcribed_to_topic_ota_setup = FALSE) \/ (s.subcribed_to_topic_ota_data = FALSE)
    THEN FALSE
    ELSE (topic = s.topic_sub_ota_setup) \/ (topic = s.topic_sub_ota_data)

(***************************************************************************)
(* Private methods: FUOTA.                                                 *)
(***************************************************************************)
\* request_trigger_fw_update_check leaving the offer's size as it is
request_trigger_fw_update_check_keeps_size(s) ==
    LET s1 == [s EXCEPT !.server_request = "NONE",
                        !.fw_server.version = <<0, 0, 0>>,
                        !.fw_server.md5[1] = NUL]
    IN  publish_control_command(Serial(s1, "MSG Control Send: FW Update Check"),
                                MSG_CONTROL_CMD_FW_UPDATE_CHECK)

\* handle_server_requests, "Server Request the Device to trigger a FW Update Check"
request_trigger_fw_update_check(s) ==
    LET s1 == [s EXCEPT !.server_request = "NONE",
                        !.fw_server.version = <<0, 0, 0>>,
                        !.fw_server.size = U32_ZERO,
                        !.fw_server.md5[1] = NUL]
    IN  publish_control_command(Serial(s1, "MSG Control Send: FW Update Check"),
                                MSG_CONTROL_CMD_FW_UPDATE_CHECK)

\* fw_size_invalid without its upper bound
fw_size_invalid_only_zero(size) == size = U32_ZERO

\* "Do nothing if received FW info from Server is invalid"
fw_size_invalid(size) == (size = U32_ZERO) \/ u32_lt(u32(MAX_APP_SIZE), size)

\* fw_version_rejected without the exception for version 0.0.0
fw_version_rejected_no_wildcard(u32_fw_server_ver, u32_fw_device_ver) ==
    u32_fw_server_ver <= u32_fw_device_ver

\* fw_version_rejected letting an equal version through
fw_version_rejected_only_lower(u32_fw_server_ver, u32_fw_device_ver) ==
    IF u32_fw_server_ver # 0
    THEN u32_fw_server_ver < u32_fw_device_ver
    ELSE FALSE

\* "Do nothing if Server FW version is lower or equal than current one.
\*  If Server report a FW version 0.0.0, the FW must be accepted"
fw_version_rejected(u32_fw_server_ver, u32_fw_device_ver) ==
    IF u32_fw_server_ver # 0
    THEN u32_fw_server_ver <= u32_fw_device_ver
    ELSE FALSE

\* handle_server_requests, "Trigger FW Update Check" (request FW_UPDATE)
request_fw_update(s) ==
    LET s1 == [s EXCEPT !.server_request = "NONE"]
        u32_fw_device_ver == u32_version_from_array(
            s.fw_device.version[1], s.fw_device.version[2], s.fw_device.version[3])
        u32_fw_server_ver == u32_version_from_array(
            s.fw_server.version[1], s.fw_server.version[2], s.fw_server.version[3])
    IN  IF fw_size_invalid(s1.fw_server.size) THEN s1
        ELSE IF fw_version_rejected(u32_fw_server_ver, u32_fw_device_ver)
        THEN Serial(Serial(Serial(s1, "FW Version:"), "FW Version Server <= Device"),
                    "No need to update FW")
        ELSE publish_control_command(
                Serial([Serial(s1, "FW Version:") EXCEPT !.valid_update = TRUE],
                       "MSG Control Send: Request FW Update"),
                MSG_CONTROL_CMD_REQUEST_FW_UPDATE)

\* request_fuota_start leaving fw_bytes_written as it is
request_fuota_start_keeps_written(s, begin_ok) ==
    LET s1 == Update_abort([s EXCEPT !.server_request = "NONE"])
        s2 == Update_begin(s1, s1.fw_server.size, begin_ok)
    IN  IF Update_begins(s1.fw_server.size, begin_ok) = FALSE
        THEN Serial(s2, "Not enough APP space for update")
        ELSE LET s3 == Update_setMD5(s2, s2.fw_server.md5)
                 s4 == [s3 EXCEPT !.fw_server.md5 = NULS,
                                  !.fuota_on_progress = TRUE]
             IN  publish_control_command(Serial(s4, "MSG Control Send: FUOTA Start ACK"),
                                         MSG_ACK_FUOTA_START)

\* handle_server_requests, "Acknowledge FUOTA process start request to Server"
request_fuota_start(s, begin_ok) ==
    LET s1 == Update_abort([s EXCEPT !.server_request = "NONE"])
        s2 == Update_begin(s1, s1.fw_server.size, begin_ok)
    IN  IF Update_begins(s1.fw_server.size, begin_ok) = FALSE
        THEN Serial(s2, "Not enough APP space for update")
        ELSE LET s3 == Update_setMD5(s2, s2.fw_server.md5)
                 s4 == [s3 EXCEPT !.fw_bytes_written = U32_ZERO,
                                  !.fw_server.md5 = NULS,
                                  !.fuota_on_progress = TRUE]
             IN  publish_control_command(Serial(s4, "MSG Control Send: FUOTA Start ACK"),
                                         MSG_ACK_FUOTA_START)

\* void handle_server_requests()
handle_server_requests(s, begin_ok) ==
    LET s1 == IF s.server_request = "TRIGGER_FW_UPDATE_CHECK"
              THEN request_trigger_fw_update_check(s)
              ELSE s
    IN  IF s1.server_request = "FW_UPDATE" THEN request_fw_update(s1)
        ELSE IF s1.server_request = "FUOTA_START" THEN request_fuota_start(s1, begin_ok)
        ELSE s1

\* handle_received_fw_data, "Handle FW Update errors"
fw_update_error(s) ==
    publish_control_command(Update_abort(Serial(s, "Update.errorString")),
                            MSG_CONTROL_CMD_FW_UPDATE_COMPLETED_FAIL)

\* fw_update_finish restarting without the publish of "update completed OK"
fw_update_finish_unannounced(s, remaining_err, end_ok) ==
    LET s1 == Serial([s EXCEPT !.fw_update_completed = FALSE,
                               !.fuota_on_progress = FALSE], "Update completed")
        s2 == Update_remaining(s1, remaining_err)
    IN  IF Update_hasError(s2)
        THEN publish_control_command(Update_abort(Serial(s2, "Update.errorString")),
                                     MSG_CONTROL_CMD_FW_UPDATE_COMPLETED_FAIL)
        ELSE LET s3 == Update_end(s2, end_ok)
             IN  IF end_ok = FALSE
                 THEN publish_control_command(Update_abort(Serial(s3, "Update fail")),
                                              MSG_CONTROL_CMD_FW_UPDATE_COMPLETED_FAIL)
                 ELSE ESP_restart(Serial(s3, "FW Update success"))

\* fw_update_finish leaving the transfer in progress when the finalize fails
fw_update_finish_keeps_progress(s, remaining_err, end_ok) ==
    LET s1 == Serial([s EXCEPT !.fw_update_completed = FALSE], "Update completed")
        s2 == Update_remaining(s1, remaining_err)
    IN  IF Update_hasError(s2)
        THEN publish_control_command(Update_abort(Serial(s2, "Update.errorString")),
                                     MSG_CONTROL_CMD_FW_UPDATE_COMPLETED_FAIL)
        ELSE LET s3 == Update_end(s2, end_ok)
             IN  IF end_ok = FALSE
                 THEN publish_control_command(Update_abort(Serial(s3, "Update fail")),
                                              MSG_CONTROL_CMD_FW_UPDATE_COMPLETED_FAIL)
                 ELSE ESP_restart(Serial(
                        publish_control_command([s3 EXCEPT !.fuota_on_progress = FALSE],
                                                MSG_CONTROL_CMD_FW_UPDATE_COMPLETED_OK),
                        "FW Update success"))

\* handle_received_fw_data, "Handle FW Update completed"
fw_update_finish(s, remaining_err, end_ok) ==
    LET s1 == Serial([s EXCEPT !.fw_update_completed = FALSE,
                               !.fuota_on_progress = FALSE], "Update completed")
        s2 == Update_remaining(s1, remaining_err)
    IN  IF Update_hasError(s2)
        THEN publish_control_command(Update_abort(Serial(s2, "Update.errorString")),
                                     MSG_CONTROL_CMD_FW_UPDATE_COMPLETED_FAIL)
        ELSE LET s3 == Update_end(s2, end_ok)
             IN  IF end_ok = FALSE
                 THEN publish_control_command(Update_abort(Serial(s3, "Update fail")),
                                              MSG_CONTROL_CMD_FW_UPDATE_COMPLETED_FAIL)
                 ELSE ESP_restart(Serial(
                        publish_control_command(s3, MSG_CONTROL_CMD_FW_UPDATE_COMPLETED_OK),
                        "FW Update success"))

\* handle_received_fw_data giving up a transfer that has blocks written and
\* is not completed
handle_received_fw_data_gives_up(s, remaining_err, end_ok) ==
    IF s.valid_update = FALSE THEN s
    ELSE IF s.fuota_on_progress = FALSE THEN s
    ELSE IF Update_hasError(s) THEN fw_update_error(s)
    ELSE IF s.fw_update_completed THEN fw_update_finish(s, remaining_err, end_ok)
    ELSE IF s.fw_bytes_written # U32_ZERO
    THEN fw_update_error([s EXCEPT !.fuota_on_progress = FALSE])
    ELSE s

\* void handle_received_fw_data()
handle_received_fw_data(s, remaining_err, end_ok) ==
    IF s.valid_update = FALSE THEN s
    ELSE IF s.fuota_on_progress = FALSE THEN s
    ELSE IF Update_hasError(s) THEN fw_update_error(s)
    ELSE IF s.fw_update_completed THEN fw_update_finish(s, remaining_err, end_ok)
    ELSE s

(***************************************************************************)
(* Private methods: auxiliary.                                             *)
(***************************************************************************)
\* MQTTClient->subscribe(topic, sub_qos)
MQTTClient_subscribe(s, topic) == [s EXCEPT !.calls = Append(@, <<"subscribe", topic>>)]

\* "Subscribe to OTA Setup Topic", the transport answering ok
subscribe_ota_setup(s, ok) ==
    IF s.subcribed_to_topic_ota_setup = FALSE /\ s.topic_sub_ota_setup # ""
    THEN [MQTTClient_subscribe(s, s.topic_sub_ota_setup)
            EXCEPT !.subcribed_to_topic_ota_setup = ok]
    ELSE s

\* subscribe_ota_data attempted only once the setup topic is subscribed
subscribe_ota_data_after_setup(s, ok) ==
    IF s.subcribed_to_topic_ota_setup /\ s.subcribed_to_topic_ota_data = FALSE
        /\ s.topic_sub_ota_data # ""
    THEN [MQTTClient_subscribe(s, s.topic_sub_ota_data)
            EXCEPT !.subcribed_to_topic_ota_data = ok]
    ELSE s

\* "Subscribe to OTA Data Topic", the transport answering ok
subscribe_ota_data(s, ok) ==
    IF s.subcribed_to_topic_ota_data = FALSE /\ s.topic_sub_ota_data # ""
    THEN [MQTTClient_subscribe(s, s.topic_sub_ota_data)
            EXCEPT !.subcribed_to_topic_ota_data = ok]
    ELSE s

\* manage_subscriptions comparing millis() with t0_subscribe + T_SUBSCRIBE
manage_subscriptions_deadline(s, millis, setup_ok, data_ok) ==
    IF s.is_initialized = FALSE THEN s
    ELSE IF s.subcribed_to_topic_ota_setup /\ s.subcribed_to_topic_ota_data THEN s
    ELSE IF u32_lt(millis, u32_add(s.t0_subscribe, u32(T_SUBSCRIBE))) THEN s
    ELSE LET s1 == [s EXCEPT !.t0_subscribe = millis]
         IN  IF is_connected(s1) = FALSE THEN s1
             ELSE subscribe_ota_data(subscribe_ota_setup(s1, setup_ok), data_ok)

\* void manage_subscriptions(); millis is what millis() reads
manage_subscriptions(s, millis, setup_ok, data_ok) ==
    IF s.is_initialized = FALSE THEN s
    ELSE IF s.subcribed_to_topic_ota_setup /\ s.subcribed_to_topic_ota_data THEN s
    ELSE IF u32_lt(u32_sub(millis, s.t0_subscribe), u32(T_SUBSCRIBE)) THEN s
    ELSE LET s1 == [s EXCEPT !.t0_subscribe = millis]
         IN  IF is_connected(s1) = FALSE THEN s1
             ELSE subscribe_ota_data(subscribe_ota_setup(s1, setup_ok), data_ok)

(***************************************************************************)
(* Public methods.                                                         *)
(***************************************************************************)
\* init(mqtt_client, current_fw_info, device_id) as mqtt_fuota_duino.h declares it:
\* "current_fw_info: Current Device Application Firmware information to set
\*  current FW version in MQTTFirmwareUpdate".  The definition in
\* mqtt_fuota_duino.cpp has no such parameter and leaves fw_device as the
\* constructor cleared it.
set_current_fw_info(s, current_fw_info) == [s EXCEPT !.fw_device = current_fw_info]

\* bool init(mqtt_client, current_fw_info, device_id): the object afterwards
init_object(s, mqtt_client, current_fw_info) ==
    IF mqtt_client = "nullptr" THEN s
    ELSE IF s.is_initialized THEN s
    ELSE [set_current_fw_info(s, current_fw_info) EXCEPT
            !.topic_sub_ota_setup = MQTT_TOPIC_SUB_OTA_SETUP,
            !.topic_sub_ota_data = MQTT_TOPIC_SUB_OTA_DATA,
            !.topic_pub_ota_control = MQTT_TOPIC_PUB_OTA_CONTROL,
            !.topic_pub_ota_ack = MQTT_TOPIC_PUB_OTA_ACK,
            !.is_initialized = TRUE]

\* process without the check of the connection
process_object_unconnected(s, millis, setup_ok, data_ok, begin_ok, remaining_err, end_ok) ==
    IF s.is_initialized = FALSE THEN s
    ELSE LET s1 == manage_subscriptions(s, millis, setup_ok, data_ok)
             s2 == handle_server_requests(s1, begin_ok)
         IN  handle_received_fw_data(s2, remaining_err, end_ok)

\* void process(): the object afterwards.  MQTTClient->loop() hands the
\* messages it receives to the host's callback, which is the action mqtt_msg_rx.
process_object(s, millis, setup_ok, data_ok, begin_ok, remaining_err, end_ok) ==
    IF s.is_initialized = FALSE THEN s
    ELSE IF is_connected(s) = FALSE THEN s
    ELSE LET s1 == manage_subscriptions(s, millis, setup_ok, data_ok)
             s2 == handle_server_requests(s1, begin_ok)
         IN  handle_received_fw_data(s2, remaining_err, end_ok)

\* bool mqtt_msg_rx(topic, payload, length): the object afterwards, the value
\* returned being the last entry of the log
mqtt_msg_rx_object(s, topic, payload, length, outcome, div0) ==
    LET s1 == mqtt_msg_rx_dispatch(s, topic, payload, length, outcome, div0)
    IN  IF s1.halted # "no" THEN s1
        ELSE Invoke(s1, <<"return", mqtt_msg_rx_returns(s, topic)>>)

(***************************************************************************)
(* The messages the transport delivers.                                    *)
(***************************************************************************)
FwInfos(versions) ==
    [version : versions, size : {U32_ZERO}, md5 : {t_fw_info_clear.md5}]

TriggerFrame == <<MSG_SETUP_CMD_TRIGGER_FW_UPDATE_CHECK>>

StartFrame == <<MSG_SETUP_CMD_FUOTA_START>>

WellFormedFrames == {TriggerFrame, StartFrame} \cup OfferFrames

AnOffer ==
    LastFwInfoFrame(<<1, 2, 0>>, u32(1), CHOOSE m \in Md5Inputs : TRUE)

\* wrong length for the command, unknown command, nothing at all
MalformedFrames ==
    {<<>>, <<3>>, StartFrame \o <<0>>, SubSeq(AnOffer, 1, 10), AnOffer \o <<0>>}

SetupMessages ==
    {[topic |-> MQTT_TOPIC_SUB_OTA_SETUP, payload |-> p, length |-> u32(Len(p))] :
        p \in WellFormedFrames \cup MalformedFrames}

DataLengths == {u32(n) : n \in 0..MaxLen}

\* a firmware data block of length bytes; the bytes themselves, which are only
\* handed on to Update.write, are left out
DataMessages ==
    {[topic |-> MQTT_TOPIC_SUB_OTA_DATA, payload |-> <<>>, length |-> n] :
        n \in DataLengths}

OtherMessages ==
    {[topic |-> MQTT_TOPIC_PUB_OTA_CONTROL, payload |-> TriggerFrame, length |-> u32(1)]}

Messages == SetupMessages \cup DataMessages \cup OtherMessages

\* what a collaborator answers is an input only of a call that asks
Answers(asked) == IF asked THEN BOOLEAN ELSE {TRUE}

Ticking == is_initialized /\ connected

Subscribing ==
    Ticking /\ ~(subcribed_to_topic_ota_setup /\ subcribed_to_topic_ota_data)

Writing(msg) ==
    /\ subcribed_to_topic_ota_setup /\ subcribed_to_topic_ota_data
    /\ msg.topic = topic_sub_ota_data
    /\ valid_update /\ fuota_on_progress

\* no more data blocks are written once MaxWritten bytes are
Deliverable(msg) == Writing(msg) => u32_lt(fw_bytes_written, u32(MaxWritten))

(***************************************************************************)
(* The state machine.                                                      *)
(***************************************************************************)
\* MQTTFirmwareUpdate::MQTTFirmwareUpdate()
Init ==
    /\ is_initialized = FALSE
    /\ t0_subscribe = u32_sub(U32_ZERO, u32(T_SUBSCRIBE))
    /\ subcribed_to_topic_ota_setup = FALSE
    /\ subcribed_to_topic_ota_data = FALSE
    /\ topic_pub_ota_control = ""
    /\ topic_sub_ota_data = ""
    /\ topic_sub_ota_setup = ""
    /\ topic_pub_ota_ack = ""
    /\ server_request = "NONE"
    /\ valid_update = FALSE
    /\ fuota_on_progress = FALSE
    /\ fw_update_completed = FALSE
    /\ fw_bytes_written = U32_ZERO
    /\ fw_device = t_fw_info_clear
    /\ fw_server = t_fw_info_clear
    /\ connected = FALSE
    /\ Update_error = FALSE
    /\ Update_size = U32_ZERO
    /\ Update_progress = U32_ZERO
    /\ halted = "no"
    /\ calls = <<>>
    /\ clock \in ClockValues
    /\ server = [step |-> "off", left |-> U32_ZERO, ticked |-> FALSE]
    /\ outbox = <<>>
    /\ subscriptions = {}

\* the host calls init
init ==
    /\ halted = "no"
    /\ \E mqtt_client \in {"nullptr", "client"},
          current_fw_info \in FwInfos(IF is_initialized THEN {fw_device.version}
                                       ELSE DeviceVersions) :
        Becomes(init_object(Enter(Self), mqtt_client, current_fw_info))
    /\ UNCHANGED surroundings

\* the host calls process
process ==
    /\ halted = "no"
    /\ \E millis \in {clock},
          setup_ok \in Answers(Subscribing /\ ~subcribed_to_topic_ota_setup),
          data_ok \in Answers(Subscribing /\ ~subcribed_to_topic_ota_data),
          begin_ok \in Answers(Ticking /\ server_request = "FUOTA_START"),
          remaining_err \in Answers(Ticking /\ fw_update_completed),
          end_ok \in Answers(Ticking /\ fw_update_completed) :
        Becomes(process_object(Enter(Self), millis, setup_ok, data_ok,
                               begin_ok, remaining_err, end_ok))
    /\ UNCHANGED surroundings

\* the transport's callback hands the received message msg to mqtt_msg_rx
Deliver(msg) ==
    /\ halted = "no"
    /\ connected
    /\ Deliverable(msg)
    /\ \E outcome \in IF Writing(msg) THEN WriteOutcomes ELSE {"all"},
          div0 \in IF Writing(msg) /\ fw_server.size = U32_ZERO
                   THEN DivZeroOutcomes ELSE {"goes on"} :
        Becomes(mqtt_msg_rx_object(Enter(Self), msg.topic, msg.payload, msg.length,
                                   outcome, div0))
    /\ UNCHANGED surroundings

mqtt_msg_rx == \E msg \in Messages : Deliver(msg)

\* the transport connects or loses its connection
transport ==
    /\ halted = "no"
    /\ Becomes([Enter(Self) EXCEPT !.connected = ~connected])
    /\ UNCHANGED surroundings

Next == init \/ process \/ mqtt_msg_rx \/ transport

Spec == Init /\ [][Next]_vars

(***************************************************************************)
(* A run the server drives: trigger check, offer, start, data blocks       *)
(* totalling the offered size, each followed by a tick; the transport      *)
(* stays connected and no collaborator fails.                              *)
(***************************************************************************)
\* the offers of the run: newer than the device it is made to, of a valid size
RunOfferVersions == {<<1, 2, 0>>, <<2, 0, 0>>}

RunSizes == {u32(n) : n \in 1..(MaxSize + 1)}

RunChunks == {u32(n) : n \in 1..MaxLen}

IsPublish(call) == call[1] = "publish"

\* the frames the log has published, in order
FramesOf(log) ==
    LET published == SelectSeq(log, IsPublish)
    IN  [i \in 1..Len(published) |-> published[i][3]]

\* the server sends the setup frame payload and waits for the next tick
RunSetup(payload, then, left) ==
    /\ Becomes(mqtt_msg_rx_object(Enter(Self), MQTT_TOPIC_SUB_OTA_SETUP, payload,
                                   u32(Len(payload)), "all", "goes on"))
    /\ server' = [step |-> then, left |-> left, ticked |-> FALSE]
    /\ UNCHANGED <<clock, outbox, subscriptions>>

InitRun ==
    /\ is_initialized = FALSE
    /\ t0_subscribe = u32_sub(U32_ZERO, u32(T_SUBSCRIBE))
    /\ subcribed_to_topic_ota_setup = FALSE
    /\ subcribed_to_topic_ota_data = FALSE
    /\ topic_pub_ota_control = ""
    /\ topic_sub_ota_data = ""
    /\ topic_sub_ota_setup = ""
    /\ topic_pub_ota_ack = ""
    /\ server_request = "NONE"
    /\ valid_update = FALSE
    /\ fuota_on_progress = FALSE
    /\ fw_update_completed = FALSE
    /\ fw_bytes_written = U32_ZERO
    /\ fw_device = t_fw_info_clear
    /\ fw_server = t_fw_info_clear
    /\ connected = FALSE
    /\ Update_error = FALSE
    /\ Update_size = U32_ZERO
    /\ Update_progress = U32_ZERO
    /\ halted = "no"
    /\ calls = <<>>
    /\ clock \in ClockValues
    /\ server = [step |-> "trigger", left |-> U32_ZERO, ticked |-> FALSE]
    /\ outbox = <<>>
    /\ subscriptions = {}

\* the host's setup() calls init once
RunInit ==
    /\ halted = "no"
    /\ ~is_initialized
    /\ \E current_fw_info \in FwInfos(DeviceVersions) :
        Becomes(init_object(Enter(Self), "client", current_fw_info))
    /\ UNCHANGED surroundings

\* the transport connects
RunConnect ==
    /\ halted = "no"
    /\ ~connected
    /\ Becomes([Enter(Self) EXCEPT !.connected = TRUE])
    /\ UNCHANGED surroundings

\* the host's loop() calls process; every subscribe, begin, remaining and end
\* succeeds
RunTick ==
    /\ halted = "no"
    /\ Becomes(process_object(Enter(Self), clock, TRUE, TRUE, TRUE, FALSE, TRUE))
    /\ outbox' = outbox \o FramesOf(calls')
    /\ server' = [server EXCEPT !.ticked = Ticking]
    /\ UNCHANGED <<clock, subscriptions>>

RunTrigger ==
    /\ server.step = "trigger"
    /\ subcribed_to_topic_ota_setup /\ subcribed_to_topic_ota_data
    /\ RunSetup(TriggerFrame, "offer", U32_ZERO)

RunOffer ==
    /\ server.step = "offer" /\ server.ticked
    /\ \E version \in RunOfferVersions, size \in RunSizes, md5 \in Md5Inputs :
        /\ u32_version_from_array(fw_device.version[1], fw_device.version[2],
                                   fw_device.version[3])
            < u32_version_from_array(version[1], version[2], version[3])
        /\ RunSetup(LastFwInfoFrame(version, size, md5), "start", size)

RunStart ==
    /\ server.step = "start" /\ server.ticked
    /\ RunSetup(StartFrame, "data", server.left)

\* a data block of any length up to what is left of the firmware
RunData ==
    /\ server.step = "data" /\ server.ticked
    /\ \E length \in RunChunks :
        /\ u32_le(length, server.left)
        /\ Becomes(mqtt_msg_rx_object(Enter(Self), MQTT_TOPIC_SUB_OTA_DATA, <<>>,
                                       length, "all", "goes on"))
        /\ server' = [step |-> IF length = server.left THEN "done" ELSE "data",
                      left |-> u32_sub(server.left, length),
                      ticked |-> FALSE]
    /\ UNCHANGED <<clock, outbox, subscriptions>>

RunServer ==
    /\ halted = "no"
    /\ connected
    /\ RunTrigger \/ RunOffer \/ RunStart \/ RunData

NextRun == RunInit \/ RunConnect \/ RunTick \/ RunServer

\* loop() runs for ever, and so does the server
SpecRun ==
    /\ InitRun /\ [][NextRun]_vars
    /\ WF_vars(RunInit) /\ WF_vars(RunConnect) /\ WF_vars(RunTick) /\ WF_vars(RunServer)

(***************************************************************************)
(* The supervisor of the subscriptions, with the millisecond clock         *)
(* running: an unsigned long that wraps around at 2^32.                    *)
(***************************************************************************)
\* readings of millis() on both sides of T_SUBSCRIBE and of the wrap-around
ClockReadings ==
    {u32(0), u32(T_SUBSCRIBE - 2), u32(T_SUBSCRIBE - 1), u32(T_SUBSCRIBE),
     u32_sub(U32_ZERO, u32(T_SUBSCRIBE)), U32_MAX}

\* time passes between two calls of the host
elapse ==
    /\ halted = "no"
    /\ clock' \in ClockReadings \ {clock}
    /\ UNCHANGED <<is_initialized, t0_subscribe, subcribed_to_topic_ota_setup,
                   subcribed_to_topic_ota_data, topic_sub_ota_setup, topic_sub_ota_data,
                   topic_pub_ota_control, topic_pub_ota_ack, server_request,
                   valid_update, fuota_on_progress, fw_update_completed,
                   fw_bytes_written, fw_device, fw_server, connected, Update_error,
                   Update_size, Update_progress, halted, calls, server, outbox,
                   subscriptions>>

NextSupervisor == init \/ process \/ transport \/ elapse

SpecSupervisor == Init /\ [][NextSupervisor]_vars

(***************************************************************************)
(* The supervisor with a transport that holds the subscriptions, loses     *)
(* them with the connection, and answers every subscribe with success;     *)
(* loop() calls process again and again while millis() goes on.            *)
(***************************************************************************)
\* what millis() has advanced by between two calls of process: 2^30 ms
ClockStep == u32_hl(16384, 0)

\* the topics the log subscribes to
Subscribed(log) == {log[i][2] : i \in {j \in 1..Len(log) : log[j][1] = "subscribe"}}

KeepInit ==
    /\ halted = "no"
    /\ ~is_initialized
    /\ \E current_fw_info \in FwInfos(DeviceVersions) :
        Becomes(init_object(Enter(Self), "client", current_fw_info))
    /\ UNCHANGED surroundings

\* loop() calls process ClockStep after it last did; the subscribes succeed
KeepTick ==
    /\ halted = "no"
    /\ clock' = u32_add(clock, ClockStep)
    /\ Becomes(process_object(Enter(Self), clock', TRUE, TRUE, TRUE, FALSE, TRUE))
    /\ subscriptions' = subscriptions \cup Subscribed(calls')
    /\ UNCHANGED <<server, outbox>>

KeepConnect ==
    /\ halted = "no"
    /\ ~connected
    /\ Becomes([Enter(Self) EXCEPT !.connected = TRUE])
    /\ UNCHANGED surroundings

\* the connection is lost, and with it the subscriptions unless the session
\* with the broker is a persistent one
KeepDisconnect ==
    /\ halted = "no"
    /\ connected
    /\ Becomes([Enter(Self) EXCEPT !.connected = FALSE])
    /\ subscriptions' \in {subscriptions, {}}
    /\ UNCHANGED <<clock, server, outbox>>

NextKeep == KeepInit \/ KeepTick \/ KeepConnect \/ KeepDisconnect

\* setup() calls init, loop() runs for ever, the transport reconnects
SpecKeep ==
    /\ Init /\ [][NextKeep]_vars
    /\ WF_vars(KeepInit) /\ WF_vars(KeepTick) /\ WF_vars(KeepConnect)

(***************************************************************************)
(* The version gate over versions of the device and of the offer with      *)
(* bytes at both ends of their range.                                      *)
(***************************************************************************)
VersionBytes == {0, 1, 128, 255}

VersionTriples == {<<x, y, z>> : x \in VersionBytes, y \in VersionBytes, z \in VersionBytes}

VersionInit ==
    /\ halted = "no"
    /\ ~is_initialized
    /\ \E current_fw_info \in FwInfos(VersionTriples) :
        Becomes(init_object(Enter(Self), "client", current_fw_info))
    /\ UNCHANGED surroundings

VersionConnect ==
    /\ halted = "no"
    /\ ~connected
    /\ Becomes([Enter(Self) EXCEPT !.connected = TRUE])
    /\ UNCHANGED surroundings

\* process; the subscribes succeed, and no transfer is started
VersionTick ==
    /\ halted = "no"
    /\ Becomes(process_object(Enter(Self), clock, TRUE, TRUE, TRUE, FALSE, TRUE))
    /\ UNCHANGED surroundings

\* the server offers a firmware of one byte with any of the versions
VersionOffer ==
    /\ halted = "no"
    /\ connected
    /\ server_request = "NONE"
    /\ \E version \in VersionTriples, md5 \in Md5Inputs :
        LET payload == LastFwInfoFrame(version, u32(1), md5)
        IN  Becomes(mqtt_msg_rx_object(Enter(Self), MQTT_TOPIC_SUB_OTA_SETUP, payload,
                                       u32(Len(payload)), "all", "goes on"))
    /\ UNCHANGED surroundings

NextVersion == VersionInit \/ VersionConnect \/ VersionTick \/ VersionOffer

SpecVersion == Init /\ [][NextVersion]_vars

(***************************************************************************)
(* The decoding of the "last firmware info" frame, over frames whose bytes *)
(* tell the positions apart and reach both ends of a byte, delivered       *)
(* before, during and after a transfer.                                    *)
(***************************************************************************)
DecodeMessages ==
    {[topic |-> MQTT_TOPIC_SUB_OTA_SETUP, payload |-> p, length |-> u32(Len(p))] :
        p \in DecodeFrames}

\* the host's setup() calls init once, the device being at 1.0.0
DecodeInit ==
    /\ halted = "no"
    /\ ~is_initialized
    /\ \E current_fw_info \in FwInfos({<<1, 0, 0>>}) :
        Becomes(init_object(Enter(Self), "client", current_fw_info))
    /\ UNCHANGED surroundings

DecodeConnect ==
    /\ halted = "no"
    /\ ~connected
    /\ Becomes([Enter(Self) EXCEPT !.connected = TRUE])
    /\ UNCHANGED surroundings

\* process; every subscribe, begin, remaining and end succeeds
DecodeTick ==
    /\ halted = "no"
    /\ Becomes(process_object(Enter(Self), clock, TRUE, TRUE, TRUE, FALSE, TRUE))
    /\ UNCHANGED surroundings

\* the server sends a "last firmware info" frame
DecodeOffer == \E msg \in DecodeMessages : Deliver(msg)

\* the server sends a trigger check or a start
DecodeRequest ==
    \E p \in {TriggerFrame, StartFrame} :
        Deliver([topic |-> MQTT_TOPIC_SUB_OTA_SETUP, payload |-> p, length |-> u32(1)])

\* the server sends a data block of one byte
DecodeData ==
    Deliver([topic |-> MQTT_TOPIC_SUB_OTA_DATA, payload |-> <<>>, length |-> u32(1)])

NextDecode ==
    DecodeInit \/ DecodeConnect \/ DecodeTick \/ DecodeOffer \/ DecodeRequest \/ DecodeData

SpecDecode == Init /\ [][NextDecode]_vars

(***************************************************************************)
(* What the properties speak of.                                           *)
(***************************************************************************)
\* the log has a publish of frame on topic
Published(log, topic, frame) ==
    \E i \in 1..Len(log) :
        log[i][1] = "publish" /\ log[i][2] = topic /\ log[i][3] = frame

\* the log has a publish
Publishes(log) == \E i \in 1..Len(log) : log[i][1] = "publish"

StorageOperations ==
    {"Update.abort", "Update.begin", "Update.setMD5", "Update.write",
     "Update.remaining", "Update.end"}

\* the log has an operation of the storage writer
Stores(log) == \E i \in 1..Len(log) : log[i][1] \in StorageOperations

\* the log has the message msg printed
Said(log, msg) == \E i \in 1..Len(log) : log[i][1] = "Serial" /\ log[i][2] = msg

\* major<<16 | minor<<8 | patch
Ordinal(info) ==
    (info.version[1] * 65536) + (info.version[2] * 256) + info.version[3]

\* 1..MAX_APP_SIZE
SizeInRange(size) == u32_le(u32(1), size) /\ u32_le(size, u32_hl(64, 0))

\* a tick that handles a pending "last firmware info" offer
OfferTick == Ticking /\ server_request = "FW_UPDATE" /\ process

\* the offer the tick handles is not newer than the device's firmware
OfferNotNewer ==
    fw_server.version # <<0, 0, 0>> /\ Ordinal(fw_server) <= Ordinal(fw_device)

\* the session is transferring, and the tick has an error of the storage
\* writer or the end of the transfer to report
TransferToReport ==
    valid_update /\ fuota_on_progress /\ (Update_error \/ fw_update_completed)

RequestUpdatePublished(log) ==
    Published(log, MQTT_TOPIC_PUB_OTA_CONTROL, <<85, 85, 255, 255>>)

ExpectedLength(cmd) == IF cmd = 1 THEN 24 ELSE 1

Malformed(payload) ==
    \/ Len(payload) = 0
    \/ payload[1] \notin {0, 1, 2}
    \/ Len(payload) # ExpectedLength(payload[1])

\* all but the log of calls
Held ==
    <<is_initialized, t0_subscribe, subcribed_to_topic_ota_setup,
      subcribed_to_topic_ota_data, topic_sub_ota_setup, topic_sub_ota_data,
      topic_pub_ota_control, topic_pub_ota_ack, server_request, valid_update,
      fuota_on_progress, fw_update_completed, fw_bytes_written, fw_device,
      fw_server, connected, Update_error, Update_size, Update_progress, halted>>

MalformedSetupMessages == {msg \in SetupMessages : Malformed(msg.payload)}

C6_DataOutsideTransferInert ==
    [][\A msg \in DataMessages :
        (~(valid_update /\ fuota_on_progress) /\ Deliver(msg))
            => /\ UNCHANGED <<fw_bytes_written, fw_update_completed>>
               /\ ~Stores(calls')
               /\ ~Publishes(calls')]_vars

\* a data block has been handed to the data handler with an offer accepted
\* and no transfer started
C6_Witness ==
    /\ calls = <<<<"Serial", "MSG RX: FW DATA">>, <<"return", TRUE>>>>
    /\ valid_update
    /\ ~fuota_on_progress

(***************************************************************************)
(* C7.  In every reachable state fw_bytes_written <= fw_server.size.       *)
(***************************************************************************)
C7_WrittenWithinOffered == u32_le(fw_bytes_written, fw_server.size)

\* a transfer goes on with more written than the offer replacing the one it
\* began with allows, and Update.write has been asked for more bytes than any
\* block delivered has
C7_Underflow ==
    /\ valid_update /\ fuota_on_progress
    /\ u32_lt(fw_server.size, fw_bytes_written)
    /\ \E i \in 1..Len(calls) :
        calls[i][1] = "Update.write" /\ u32_lt(u32(MaxLen), calls[i][2])

(***************************************************************************)
(* C8.  While the session is transferring the image the storage writer has *)
(* begun (valid_update and fuota_on_progress set, the writer holding an    *)
(* image of fw_server.size bytes), fw_bytes_written <= fw_server.size; a   *)
(* data block of any length delivered then has                             *)
(* min(length, fw_server.size - fw_bytes_written) bytes handed to          *)
(* Update.write, and fw_update_completed, if not set before, is set by the *)
(* block exactly when fw_bytes_written has reached fw_server.size.         *)
(***************************************************************************)
InEpisode ==
    /\ valid_update /\ fuota_on_progress
    /\ Update_size # U32_ZERO
    /\ fw_server.size = Update_size

Smaller(a, b) == IF u32_lt(a, b) THEN a ELSE b

\* the log has one Update.write, of length bytes
Writes(log, length) ==
    /\ \E i \in 1..Len(log) : log[i] = <<"Update.write", length>>
    /\ \A i, j \in 1..Len(log) :
        (log[i][1] = "Update.write" /\ log[j][1] = "Update.write") => i = j

StartTick == Ticking /\ server_request = "FUOTA_START" /\ process

AckPublished(log) ==
    \E i \in 1..Len(log) : log[i][1] = "publish" /\ log[i][3] = <<170, 170, 170, 170>>

\* abort, then begin(size), then no word of begin having failed
Begun(log, size) ==
    /\ \E i, j \in 1..Len(log) :
        i < j /\ log[i] = <<"Update.abort">> /\ log[j] = <<"Update.begin", size>>
    /\ ~Said(log, "Not enough APP space for update")

AbortThenBegin(log, size) ==
    \E j \in 1..Len(log) :
        /\ log[j] = <<"Update.begin", size>>
        /\ \E i \in 1..(j - 1) : log[i] = <<"Update.abort">>
        /\ \A i \in 1..(j - 1) : log[i][1] # "Update.begin"

C9_StartOfEpisode ==
    /\ [][StartTick =>
            /\ AbortThenBegin(calls', fw_server.size)
            /\ Begun(calls', fw_server.size)
                => /\ fw_bytes_written' = U32_ZERO
                   /\ fuota_on_progress'
                   /\ AckPublished(calls')]_vars
    /\ [][AckPublished(calls') => (StartTick /\ Begun(calls', fw_server.size))]_vars

\* a tick has begun an image and published the ack, and the transfer is not
\* in progress after it
C9_AckedNotInProgress ==
    /\ AckPublished(calls)
    /\ ~Said(calls, "Not enough APP space for update")
    /\ ~fuota_on_progress

(***************************************************************************)
(* C10.  The ack frame AA AA AA AA is published on the ack topic, and      *)
(* nothing but CHECK, REQUEST_UPDATE, COMPLETED_OK and COMPLETED_FAIL is   *)
(* published on the control topic.                                         *)
(***************************************************************************)
ControlTags ==
    {<<175, 18, 52, 86>>, <<85, 85, 255, 255>>, <<85, 170, 255, 255>>, <<85, 170, 0, 0>>}

C10_AckOnAckTopic ==
    \A i \in 1..Len(calls) :
        calls[i][1] = "publish" =>
            /\ calls[i][3] = <<170, 170, 170, 170>> => calls[i][2] = MQTT_TOPIC_PUB_OTA_ACK
            /\ calls[i][2] = MQTT_TOPIC_PUB_OTA_CONTROL => calls[i][3] \in ControlTags

\* the ack frame has been published on the control topic
C10_AckOnControlTopic ==
    Published(calls, MQTT_TOPIC_PUB_OTA_CONTROL, <<170, 170, 170, 170>>)

(***************************************************************************)
(* C11.  Whenever a tick has Update.begin succeed for a "start FUOTA"      *)
(* request of a session with an accepted offer, the hash it hands to       *)
(* Update.setMD5 is the 32 hexadecimal characters of the digest the last   *)
(* "last firmware info" frame carried (every frame carries the digest      *)
(* 0A AB AB .. AB).                                                        *)
(***************************************************************************)
OfferedHash ==
    <<"0", "A">> \o [i \in 1..30 |-> IF i % 2 = 1 THEN "A" ELSE "B"]

C11_TargetHash ==
    [][valid_update =>
        \A i \in 1..Len(calls') :
            calls'[i][1] = "Update.setMD5" => calls'[i][2] = OfferedHash]_vars

\* a second start has handed Update.setMD5 a hash of NUL characters
C11_EmptyHash ==
    /\ valid_update /\ fuota_on_progress
    /\ AckPublished(calls)
    /\ \E i \in 1..Len(calls) :
        calls[i][1] = "Update.setMD5" /\ calls[i][2] = [j \in 1..32 |-> ""]

(***************************************************************************)
(* C12.  A tick that handles a "start FUOTA" request and has Update.begin  *)
(* fail publishes nothing and leaves the session not transferring          *)
(* (valid_update and fuota_on_progress not both set), also when a transfer *)
(* was in progress before.                                                 *)
(***************************************************************************)
C12_BeginFailure ==
    [][(StartTick /\ Said(calls', "Not enough APP space for update"))
        => /\ ~Publishes(calls')
           /\ ~(valid_update' /\ fuota_on_progress')]_vars

\* Update.begin has failed for the start of a second episode; the tick has
\* published COMPLETED_FAIL and the transfer is still marked in progress
C12_StillTransferring ==
    /\ Said(calls, "Not enough APP space for update")
    /\ Publishes(calls)
    /\ valid_update /\ fuota_on_progress

(***************************************************************************)
(* C13.  A tick that finds the session transferring and the storage writer *)
(* in error invokes Update.abort(), publishes COMPLETED_FAIL (55 AA 00 00) *)
(* and leaves the transfer not in progress.                                *)
(***************************************************************************)
ErrorTick ==
    /\ Ticking /\ server_request = "NONE"
    /\ valid_update /\ fuota_on_progress /\ Update_error
    /\ process

FailPublished(log) ==
    Published(log, MQTT_TOPIC_PUB_OTA_CONTROL, <<85, 170, 0, 0>>)

C13_StorageErrorToIdle ==
    [][ErrorTick
        => /\ \E i \in 1..Len(calls') : calls'[i] = <<"Update.abort">>
           /\ FailPublished(calls')
           /\ ~fuota_on_progress']_vars

\* a tick has aborted the image and published COMPLETED_FAIL, and the
\* transfer is still marked in progress with the writer in error, so that the
\* next tick does the same
C13_StillInProgress ==
    /\ calls = <<<<"Serial", "Update.errorString">>, <<"Update.abort">>,
                 <<"publish", MQTT_TOPIC_PUB_OTA_CONTROL, <<85, 170, 0, 0>>>>>>
    /\ valid_update /\ fuota_on_progress /\ Update_error

(***************************************************************************)
(* C14: in the run the server drives, the frames published are, in this    *)
(* order, CHECK, REQUEST_UPDATE, the start ack AA AA AA AA and             *)
(* COMPLETED_OK; the device restarts only after all four, in the tick that *)
(* publishes COMPLETED_OK and after that publish; and with loop() and the  *)
(* server running for ever the run reaches the restart.                    *)
(***************************************************************************)
RunFrames == <<<<175, 18, 52, 86>>, <<85, 85, 255, 255>>, <<170, 170, 170, 170>>,
               <<85, 170, 255, 255>>>>

After(log, msg, entry) ==
    \E i, j \in 1..Len(log) : i < j /\ log[i] = <<"Serial", msg>> /\ log[j] = entry

Restarts(log) == \E i \in 1..Len(log) : log[i] = <<"ESP.restart">>

C15_FinalizeFailure ==
    [][(Ticking /\ fw_update_completed /\ process
            /\ Said(calls', "Update completed") /\ ~Said(calls', "FW Update success"))
        => /\ After(calls', "Update completed", <<"Update.abort">>)
           /\ After(calls', "Update completed",
                    <<"publish", MQTT_TOPIC_PUB_OTA_CONTROL, <<85, 170, 0, 0>>>>)
           /\ ~Restarts(calls')
           /\ halted' = "no"
           /\ ~fuota_on_progress'
           /\ ~fw_update_completed']_vars

\* Update.end() has returned false in the tick that finalized the transfer
C15_Witness ==
    /\ After(calls, "Update completed", <<"Update.end">>)
    /\ After(calls, "Update fail", <<"Update.abort">>)
    /\ FailPublished(calls)
    /\ halted = "no" /\ valid_update /\ ~fuota_on_progress /\ ~fw_update_completed

\* the writer was in error after Update.remaining() in such a tick
C15_WitnessRemaining ==
    /\ After(calls, "Update completed", <<"Update.remaining">>)
    /\ ~After(calls, "Update completed", <<"Update.end">>)
    /\ FailPublished(calls)
    /\ halted = "no" /\ valid_update /\ ~fuota_on_progress /\ ~fw_update_completed

(***************************************************************************)
(* C16: the device restarts only in a tick (process) that finalized the    *)
(* transfer with success (Update.end() after "Update completed", then the  *)
(* publish of COMPLETED_OK, then the restart), with no Update.abort() and  *)
(* no COMPLETED_FAIL after "Update completed", and the offer the transfer  *)
(* was started for is one the gate accepts: size in 1..MAX_APP_SIZE and    *)
(* version 0.0.0 or newer than the device's.                               *)
(***************************************************************************)
\* the offer held passes the size and version gate of handle_server_requests
OfferAcceptable ==
    /\ SizeInRange(fw_server.size)
    /\ Ordinal(fw_server) = 0 \/ Ordinal(fw_server) > Ordinal(fw_device)

\* the offer held is the one the transfer was started for: the start has
\* emptied its hash and no offer has been received since
StartedForOfferHeld == fw_server.md5 = NULS

\* the log of a tick that finalized with success and restarted
FinalizedWithSuccess(log) ==
    /\ After(log, "Update completed", <<"Update.end">>)
    /\ After(log, "Update completed",
             <<"publish", MQTT_TOPIC_PUB_OTA_CONTROL, <<85, 170, 255, 255>>>>)
    /\ log[Len(log)] = <<"ESP.restart">>
    /\ ~After(log, "Update completed", <<"Update.abort">>)
    /\ ~FailPublished(log)

C16_RestartOnlyAfterFinalize ==
    [][(halted = "no" /\ (halted' = "restart" \/ Restarts(calls')))
        => /\ Ticking /\ valid_update /\ fuota_on_progress' = FALSE
           /\ halted' = "restart"
           /\ FinalizedWithSuccess(calls')]_vars

TriggerTick == Ticking /\ server_request = "TRIGGER_FW_UPDATE_CHECK" /\ process

CheckPublished(log) == Published(log, MQTT_TOPIC_PUB_OTA_CONTROL, <<175, 18, 52, 86>>)

\* the offered firmware info is the sentinel; the hash is a C string
OfferCleared(offer) ==
    offer.version = <<0, 0, 0>> /\ offer.size = <<0, 0>> /\ offer.md5[1] = ""

C17_TriggerCheck ==
    [][TriggerTick
        => /\ OfferCleared(fw_server')
           /\ CheckPublished(calls')
           /\ server_request' = "NONE"
           /\ Stores(calls') => TransferToReport]_vars

\* a trigger check has been handled with an offer held and no transfer to report
C17_Witness ==
    /\ calls = <<<<"Serial", "MSG Control Send: FW Update Check">>,
                 <<"publish", MQTT_TOPIC_PUB_OTA_CONTROL, <<175, 18, 52, 86>>>>>>
    /\ OfferCleared(fw_server)
    /\ fw_server.md5[2] # ""
    /\ valid_update /\ server_request = "NONE"

\* as worded: no operation of the storage writer in such a tick
C17_AsWorded ==
    [][TriggerTick
        => /\ OfferCleared(fw_server')
           /\ CheckPublished(calls')
           /\ ~Stores(calls')]_vars

(***************************************************************************)
(* C18: a tick (process) while the object is not initialized or the        *)
(* transport is not connected changes no attribute of the object and of    *)
(* the storage writer and asks nothing of any collaborator: no publish, no *)
(* subscribe, no storage operation, nothing printed.  A tick while         *)
(* initialized and connected with a request pending handles it: the        *)
(* request is NONE afterwards, a trigger check has published CHECK, an     *)
(* acceptable offer has published REQUEST_UPDATE, a start has called       *)
(* Update.abort() and Update.begin().                                      *)
(***************************************************************************)
\* the log shows the pending request handled
Handled(request, log) ==
    /\ request = "TRIGGER_FW_UPDATE_CHECK" => CheckPublished(log)
    /\ (request = "FW_UPDATE" /\ OfferAcceptable) => RequestUpdatePublished(log)
    /\ request = "FUOTA_START" =>
            \E i \in 1..Len(log) - 1 :
                log[i] = <<"Update.abort">> /\ log[i + 1][1] = "Update.begin"

C18_Dormant ==
    /\ [][(~Ticking /\ process) => (UNCHANGED Held /\ calls' = <<>>)]_vars
    /\ [][(Ticking /\ server_request # "NONE" /\ process)
            => (server_request' = "NONE" /\ Handled(server_request, calls'))]_vars

\* a request is pending in an initialized object whose transport is not
\* connected, with both topics subscribed and a transfer in progress
C18_Witness ==
    /\ is_initialized /\ ~connected
    /\ server_request = "FUOTA_START"
    /\ subcribed_to_topic_ota_setup /\ subcribed_to_topic_ota_data
    /\ valid_update /\ fuota_on_progress /\ fw_update_completed
    /\ calls = <<>>

(***************************************************************************)
(* C19: a tick (process) makes a subscribe call only when a subscribed     *)
(* flag is false and the time since the last recorded attempt, (millis() - *)
(* t0_subscribe) modulo 2^32, is at least 5000 ms, and it records millis() *)
(* as the time of the attempt; t0_subscribe changes in no other step.  So  *)
(* two ticks that attempt are 5000 ms apart or more, across the            *)
(* wrap-around of millis() too.                                            *)
(***************************************************************************)
Subscribes(log) == \E i \in 1..Len(log) : log[i][1] = "subscribe"

\* (millis() - t0_subscribe) modulo 2^32 is less than ms
ElapsedBelow(ms) == u32_lt(u32_sub(clock, t0_subscribe), u32(ms))

C19_RetryBackoff ==
    /\ [][(process /\ Subscribes(calls'))
            => /\ ~(subcribed_to_topic_ota_setup /\ subcribed_to_topic_ota_data)
               /\ ~ElapsedBelow(5000)
               /\ t0_subscribe' = clock]_vars
    /\ [][t0_subscribe' # t0_subscribe => (process /\ Subscribes(calls'))]_vars

\* an attempt was made at 2^32 - 1 and both subscribes failed; millis() has
\* wrapped around since and reads 4998, which is 4999 ms later
C19_Witness ==
    /\ Ticking
    /\ calls = <<<<"subscribe", MQTT_TOPIC_SUB_OTA_SETUP>>,
                 <<"subscribe", MQTT_TOPIC_SUB_OTA_DATA>>>>
    /\ t0_subscribe = <<65535, 65535>> /\ clock = <<0, 4998>>
    /\ ~subcribed_to_topic_ota_setup /\ ~subcribed_to_topic_ota_data

(***************************************************************************)
(* C20: in a tick (process) that attempts subscription, each topic whose   *)
(* flag is false is subscribed exactly once and its flag becomes what the  *)
(* transport answers, each topic whose flag is true is not subscribed and  *)
(* keeps its flag, whatever the transport answers for the other topic; and *)
(* t0_subscribe becomes millis() whatever the answers.                     *)
(***************************************************************************)
\* how many times the log subscribes to topic
Attempts(log, topic) ==
    Cardinality({i \in 1..Len(log) : log[i] = <<"subscribe", topic>>})

\* the supervisor attempts subscription in a tick of this state
Attempting ==
    Ticking /\ ~(subcribed_to_topic_ota_setup /\ subcribed_to_topic_ota_data)
        /\ ~ElapsedBelow(5000)

\* the object after the supervisor has run with these answers
Supervised(setup_ok, data_ok) == manage_subscriptions(Enter(Self), clock, setup_ok, data_ok)

C20_IndependentSubscriptions ==
    /\ [](Attempting => \A setup_ok, data_ok \in BOOLEAN :
            LET after == Supervised(setup_ok, data_ok)
            IN  /\ Attempts(after.calls, MQTT_TOPIC_SUB_OTA_SETUP)
                        = IF subcribed_to_topic_ota_setup THEN 0 ELSE 1
                /\ Attempts(after.calls, MQTT_TOPIC_SUB_OTA_DATA)
                        = IF subcribed_to_topic_ota_data THEN 0 ELSE 1
                /\ Len(after.calls) = Attempts(after.calls, MQTT_TOPIC_SUB_OTA_SETUP)
                        + Attempts(after.calls, MQTT_TOPIC_SUB_OTA_DATA)
                /\ after.subcribed_to_topic_ota_setup
                        = IF subcribed_to_topic_ota_setup THEN TRUE ELSE setup_ok
                /\ after.subcribed_to_topic_ota_data
                        = IF subcribed_to_topic_ota_data THEN TRUE ELSE data_ok
                /\ after.t0_subscribe = clock)
    /\ [][(Attempting /\ process)
            => /\ t0_subscribe' = clock
               /\ Attempts(calls', MQTT_TOPIC_SUB_OTA_SETUP)
                    = IF subcribed_to_topic_ota_setup THEN 0 ELSE 1
               /\ Attempts(calls', MQTT_TOPIC_SUB_OTA_DATA)
                    = IF subcribed_to_topic_ota_data THEN 0 ELSE 1
               /\ subcribed_to_topic_ota_setup => subcribed_to_topic_ota_setup'
               /\ subcribed_to_topic_ota_data => subcribed_to_topic_ota_data']_vars

\* both topics were attempted in one tick; the setup subscribe failed and the
\* data subscribe succeeded
C20_Witness ==
    /\ calls = <<<<"subscribe", MQTT_TOPIC_SUB_OTA_SETUP>>,
                 <<"subscribe", MQTT_TOPIC_SUB_OTA_DATA>>>>
    /\ ~subcribed_to_topic_ota_setup /\ subcribed_to_topic_ota_data
    /\ t0_subscribe = clock /\ clock = U32_MAX

(***************************************************************************)
(* C21: with loop() ticking for ever and every subscribe succeeding, once  *)
(* the transport stays connected both inbound topics are eventually        *)
(* subscribed at the transport, also when a connection lost before took    *)
(* the subscriptions with it.                                              *)
(***************************************************************************)
InboundTopics == {MQTT_TOPIC_SUB_OTA_SETUP, MQTT_TOPIC_SUB_OTA_DATA}

C21_KeepsSubscribed == <>[]connected => <>[](subscriptions = InboundTopics)

\* what holds: the object eventually holds both topics for subscribed
C21_FlagsEventuallySet ==
    <>[]connected => <>[](subcribed_to_topic_ota_setup /\ subcribed_to_topic_ota_data)

\* the transport is connected again after it lost the subscriptions, and the
\* object still holds both topics for subscribed
C21_FlagsOutliveSubscriptions ==
    /\ is_initialized /\ connected
    /\ subcribed_to_topic_ota_setup /\ subcribed_to_topic_ota_data
    /\ subscriptions = {}
    /\ calls = <<>>

(***************************************************************************)
(* C22: mqtt_msg_rx returns true when both inbound topics are subscribed   *)
(* and the topic is the setup topic, the message then going to the setup   *)
(* handler, or the data topic, the message then going to the data handler; *)
(* otherwise it returns false, changes no attribute and asks nothing of    *)
(* any collaborator.                                                       *)
(***************************************************************************)
\* mqtt_msg_rx expects a message on topic
Expected(topic) ==
    /\ subcribed_to_topic_ota_setup /\ subcribed_to_topic_ota_data
    /\ topic = topic_sub_ota_setup \/ topic = topic_sub_ota_data

\* the call logged has returned value
Returned(log, value) == Len(log) > 0 /\ log[Len(log)] = <<"return", value>>

\* the call logged has gone to the handler that prints banner first
DispatchedTo(log, banner) == Len(log) > 0 /\ log[1] = <<"Serial", banner>>

C22_DispatchContract ==
    [][\A msg \in Messages :
        Deliver(msg)
            => /\ Expected(msg.topic) => Returned(calls', TRUE)
               /\ (Expected(msg.topic) /\ msg.topic = topic_sub_ota_setup)
                    => DispatchedTo(calls', "MSG RX: OTA Setup")
               /\ (Expected(msg.topic) /\ msg.topic = topic_sub_ota_data)
                    => DispatchedTo(calls', "MSG RX: FW DATA")
               /\ ~Expected(msg.topic)
                    => (calls' = <<<<"return", FALSE>>>> /\ UNCHANGED Held)]_vars

\* what holds: the same of every call that returns
C22_WhenItReturns ==
    [][\A msg \in Messages :
        (Deliver(msg) /\ halted' = "no")
            => /\ Expected(msg.topic) => Returned(calls', TRUE)
               /\ (Expected(msg.topic) /\ msg.topic = topic_sub_ota_setup)
                    => DispatchedTo(calls', "MSG RX: OTA Setup")
               /\ (Expected(msg.topic) /\ msg.topic = topic_sub_ota_data)
                    => DispatchedTo(calls', "MSG RX: FW DATA")
               /\ ~Expected(msg.topic)
                    => (calls' = <<<<"return", FALSE>>>> /\ UNCHANGED Held)]_vars

\* a data block went to the data handler and the call did not return
C22_NeverReturned ==
    /\ DispatchedTo(calls, "MSG RX: FW DATA")
    /\ ~Returned(calls, TRUE) /\ ~Returned(calls, FALSE)
    /\ halted = "crash"

(***************************************************************************)
(* C23: for the versions t1 of the device and t2 of the offer, t1 is       *)
(* before t2 in lexicographic order exactly when                           *)
(* u32_version_from_array(t1) < u32_version_from_array(t2), and the other  *)
(* way round; u32_version_from_array is 0 for 0.0.0 only; and the gate     *)
(* requests the update exactly for an offer 0.0.0 or lexicographically     *)
(* after the device's version.                                             *)
(***************************************************************************)
\* t1 is before t2 in lexicographic order
LexLess(t1, t2) ==
    \/ t1[1] < t2[1]
    \/ t1[1] = t2[1] /\ t1[2] < t2[2]
    \/ t1[1] = t2[1] /\ t1[2] = t2[2] /\ t1[3] < t2[3]

OrdinalOf(t) == u32_version_from_array(t[1], t[2], t[3])

C25_FinalizeOnlyComplete ==
    [][(Ticking /\ fw_update_completed /\ process /\ Said(calls', "Update completed"))
        => /\ u32_le(fw_server'.size, fw_bytes_written')
           /\ ~AckPublished(calls')]_vars

\* a tick has started an episode for an offer of valid size and finalized it
\* with nothing written
C25_StaleCompletion ==
    /\ AckPublished(calls)
    /\ After(calls, "Update completed", <<"Update.remaining">>)
    /\ SizeInRange(fw_server.size)
    /\ fw_bytes_written = <<0, 0>>
    /\ ~fw_update_completed /\ ~fuota_on_progress

(***************************************************************************)
(* C26: fw_bytes_written changes only in a tick (process) that handles a   *)
(* start with Update.begin() succeeding, which sets it to 0, and in the    *)
(* delivery of a data block with valid_update and fuota_on_progress set,   *)
(* which increases it by what Update.write() has written; every tick that  *)
(* handles a start with success leaves it at 0.                            *)
(***************************************************************************)
\* what the last Update.write of the log was asked to write
Asked(log) ==
    LET i == CHOOSE j \in 1..Len(log) : log[j][1] = "Update.write"
    IN  log[i][2]

C26_BytesWrittenMonotonic ==
    /\ [][fw_bytes_written' # fw_bytes_written
            => \/ /\ StartTick
                  /\ Begun(calls', fw_server.size)
                  /\ fw_bytes_written' = <<0, 0>>
               \/ /\ valid_update /\ fuota_on_progress
                  /\ \E msg \in DataMessages : Deliver(msg)
                  /\ u32_lt(fw_bytes_written, fw_bytes_written')
                  /\ u32_le(u32_sub(fw_bytes_written', fw_bytes_written), Asked(calls'))]_vars
    /\ [][(StartTick /\ Begun(calls', fw_server.size))
            => fw_bytes_written' = <<0, 0>>]_vars

\* a second data block has been written in a transfer of more bytes than one
\* block has
C26_Witness ==
    /\ valid_update /\ fuota_on_progress /\ ~fw_update_completed
    /\ DispatchedTo(calls, "MSG RX: FW DATA")
    /\ \E i \in 1..Len(calls) : calls[i] = <<"Update.write", <<0, 1>>>>
    /\ fw_bytes_written = <<0, 2>>
    /\ Update_progress = fw_bytes_written

(***************************************************************************)
(* C27: at every call of Update.begin() valid_update is true and the size  *)
(* given is in 1..MAX_APP_SIZE, as they are when the size is that of an    *)
(* offer for which REQUEST_UPDATE was published.                           *)
(***************************************************************************)
C27_BeginOnlyAccepted ==
    [][\A i \in 1..Len(calls') :
        (calls'[i][1] = "Update.begin" /\ process)
            => (valid_update /\ SizeInRange(calls'[i][2]))]_vars

\* Update.begin(0) has been called for a start that came before any offer
C27_BegunWithoutOffer ==
    /\ \E i \in 1..Len(calls) : calls[i] = <<"Update.begin", <<0, 0>>>>
    /\ Said(calls, "Not enough APP space for update")
    /\ ~valid_update
    /\ fw_server.version = <<0, 0, 0>> /\ fw_server.size = <<0, 0>>

\* Update.begin() has been called with a size above MAX_APP_SIZE, that of an
\* offer the gate dropped, and has succeeded
C27_BegunOversize ==
    /\ \E i \in 1..Len(calls) :
        calls[i][1] = "Update.begin" /\ u32_lt(u32_hl(64, 0), calls[i][2])
    /\ AckPublished(calls)
    /\ valid_update

(***************************************************************************)
(* C28: the tick (process) that follows a tick which published            *)
(* COMPLETED_FAIL publishes COMPLETED_FAIL only if it has first handled a  *)
(* start with Update.begin() succeeding.                                   *)
(***************************************************************************)
C28_OneFailPerEpisode ==
    [][(FailPublished(calls) /\ Ticking /\ process /\ FailPublished(calls'))
        => Begun(calls', fw_server.size)]_vars

\* the error branch has aborted the writer and published COMPLETED_FAIL for a
\* transfer with bytes written, and all that made it do so is still there
C28_FailsAgain ==
    /\ FailPublished(calls) /\ DispatchedTo(calls, "Update.errorString")
    /\ valid_update /\ fuota_on_progress /\ Update_error
    /\ server_request = "NONE"
    /\ Update_size = <<0, 0>>
    /\ fw_bytes_written # <<0, 0>>

(***************************************************************************)
(* C29: a well-formed setup frame delivered while a request is pending     *)
(* leaves that request pending, with the offer it is about, next to its    *)
(* own, so that a later tick handles each of the two.                      *)
(***************************************************************************)
\* the request a well-formed setup frame asks for
RequestOf(payload) ==
    IF payload[1] = 0 THEN "TRIGGER_FW_UPDATE_CHECK"
    ELSE IF payload[1] = 1 THEN "FW_UPDATE"
    ELSE "FUOTA_START"

WellFormedSetupMessages == {msg \in SetupMessages : ~Malformed(msg.payload)}

C29_NoRequestLost ==
    [][\A msg \in WellFormedSetupMessages :
        (server_request # "NONE" /\ Expected(msg.topic) /\ Deliver(msg))
            => /\ server_request' = RequestOf(msg.payload)
               /\ server_request' = server_request
               /\ fw_server' = fw_server]_vars

\* a start is pending over an offer the gate would accept and no tick has
\* handled: no offer has been accepted yet
C29_OfferNeverGated ==
    /\ server_request = "FUOTA_START"
    /\ Said(calls, "Server requesting FUOTA Start")
    /\ ~valid_update
    /\ OfferAcceptable
    /\ fw_server.version = <<1, 2, 0>> /\ fw_device.version = <<1, 0, 0>>

(***************************************************************************)
(* C30: when a data block is delivered with valid_update and               *)
(* fuota_on_progress set, fw_server.size >= 1 and fw_bytes_written <=      *)
(* fw_server.size, so that fw_server.size - fw_bytes_written does not wrap *)
(* around and fw_bytes_written / fw_server.size is no division by zero:    *)
(* the call returns.                                                       *)
(***************************************************************************)
C30_SizePositiveWhenApplied ==
    [][\A msg \in DataMessages :
        (valid_update /\ fuota_on_progress /\ Expected(msg.topic) /\ Deliver(msg))
            => /\ fw_server.size # <<0, 0>>
               /\ u32_le(fw_bytes_written, fw_server.size)
               /\ halted' = "no"]_vars

\* a data block was applied after a trigger check had cleared the offer, and
\* the division by fw_server.size = 0 has trapped
C30_DividedByZero ==
    /\ halted = "crash"
    /\ valid_update /\ fuota_on_progress
    /\ OfferCleared(fw_server)
    /\ \E i \in 1..Len(calls) : calls[i][1] = "Update.write"
    /\ ~Said(calls, "Updating")

(***************************************************************************)
(* C31: a tick (process) of an initialized, connected object with a        *)
(* transfer in progress, no request pending, the storage writer not in     *)
(* error and the transfer not completed publishes nothing, calls no        *)
(* operation of the storage writer (no Update.abort, no Update.end),       *)
(* leaves the pending request, valid_update, fuota_on_progress,            *)
(* fw_update_completed, fw_bytes_written, the offer and the storage writer *)
(* as they were and the firmware running; so the next tick is such a tick  *)
(* again, and so is every tick until a message is delivered: no tick gives *)
(* the transfer up.                                                        *)
(***************************************************************************)
\* a transfer in progress with nothing for a tick to handle or to report
Stalled ==
    /\ Ticking
    /\ fuota_on_progress
    /\ server_request = "NONE"
    /\ ~Update_error
    /\ ~fw_update_completed

Hex16 == <<"0", "1", "2", "3", "4", "5", "6", "7", "8", "9", "A", "B", "C", "D", "E", "F">>

\* the bytes as upper-case hexadecimal characters, two for each byte
Rendered(bytes) ==
    [i \in 1..(2 * Len(bytes)) |->
        IF i % 2 = 1 THEN Hex16[(bytes[(i + 1) \div 2] \div 16) + 1]
        ELSE Hex16[(bytes[i \div 2] % 16) + 1]]

\* the offer the frame p stands for, the size as <<byte4*2^8 + byte5, byte6*2^8 + byte7>>
Decoded(p) ==
    [version |-> <<p[2], p[3], p[4]>>,
     size |-> <<(p[5] * 256) + p[6], (p[7] * 256) + p[8]>>,
     md5 |-> Rendered(SubSeq(p, 9, 24))]

\* 32-bit values with each half at both ends and in the middle of its range
RoundTripValues ==
    {<<hi, lo>> : hi \in {0, 1, 255, 256, 4660, 32768, 65535},
                  lo \in {0, 1, 255, 256, 22136, 32768, 65535}}

C32_OfferDecoding ==
    /\ [](\A x \in RoundTripValues :
            big_endian_u32_read_from_array(big_endian_u32_write_to_array(x)) = x)
    /\ [](\A k \in 1..Len(DecodeSizeBytes) :
            big_endian_u32_write_to_array(big_endian_u32_read_from_array(DecodeSizeBytes[k]))
                = DecodeSizeBytes[k])
    /\ [][\A msg \in DecodeMessages :
            (subcribed_to_topic_ota_setup /\ subcribed_to_topic_ota_data /\ Deliver(msg))
                => /\ fw_server' = Decoded(msg.payload)
                   /\ server_request' = "FW_UPDATE"
                   /\ UNCHANGED <<valid_update, fuota_on_progress, fw_update_completed,
                                  fw_bytes_written, fw_device, Update_error, Update_size,
                                  Update_progress, halted>>]_vars

\* the offer 255.128.127 of 0x01020304 bytes with the hash 00 11 .. FF has been
\* decoded during a transfer begun for another offer, with one byte written
C32_Witness ==
    /\ fw_server.version = <<255, 128, 127>>
    /\ fw_server.size = <<258, 772>>
    /\ fw_server.md5 = <<"0", "0", "1", "1", "2", "2", "3", "3", "4", "4", "5", "5",
                         "6", "6", "7", "7", "8", "8", "9", "9", "A", "A", "B", "B",
                         "C", "C", "D", "D", "E", "E", "F", "F">>
    /\ server_request = "FW_UPDATE"
    /\ valid_update /\ fuota_on_progress
    /\ fw_bytes_written = <<0, 1>>
    /\ Update_size = <<0, 2>>
    /\ Returned(calls, TRUE)

====
